---- MODULE Spec2Model ----
(***************************************************************************)
(* smartctl_exporter: the mapping of one smartctl JSON report to           *)
(* Prometheus observations (metrics.go: the metric catalog, NewSMARTctl,   *)
(* Collect and its twelve mine* sub-steps).                                *)
(*                                                                         *)
(* Go strings are sequences of tokens (a token is a run of characters that *)
(* the program never splits; " " is the white-space token and "," the      *)
(* comma), so that TrimSpace and Join are computed, not assumed.           *)
(* float64 values are naturals: every number the program handles here is a *)
(* non-negative integer read from the report, multiplied or added.         *)
(***************************************************************************)
EXTENDS Integers, Sequences, FiniteSets, TLC

VARIABLES
    json,       \* SMARTctl.json: the parsed report (read-only during a pass)
    device,     \* SMARTctl.device: the identity extracted by NewSMARTctl
    pc,         \* the next sub-step Collect calls ("done" after the last, "panic" after a panic)
    pending,    \* the sends `smart.ch <- m` the running sub-step still has to perform
    ch,         \* the observations the sink has received from smart.ch, in order
    sinkReady,  \* TRUE while the sink is blocked in a receive on the channel
    pass,       \* number of the Collect pass over this report (1 or 2)
    prev,       \* what the sink received during the previous pass
    flagsJson,  \* mineLongFlags: argument json
    flagsList,  \* mineLongFlags: argument flags
    flagsOut,   \* mineLongFlags: returned string
    flagsPc     \* "call" before mineLongFlags ran on the arguments, "return" after

vars == <<json, device, pc, pending, ch, sinkReady, pass, prev,
          flagsJson, flagsList, flagsOut, flagsPc>>

(***************************************************************************)
(* Bounds of the model.                                                    *)
(***************************************************************************)
MaxAttrs == 1      \* longest ata_smart_attributes.table
MaxTemps == 2      \* most children of the temperature sub-tree
MaxStats == 2      \* most entries of one device-statistics page
MaxFlagKeys == 2   \* most keys of a flags sub-tree given to mineLongFlags alone

(***************************************************************************)
(* Strings.                                                                *)
(***************************************************************************)
S(t) == <<t>>

Range(seq) == {seq[i] : i \in 1..Len(seq)}

WhiteSpace == {" "}

RECURSIVE TrimLeft(_)
TrimLeft(s) ==
    IF s # <<>> /\ Head(s) \in WhiteSpace THEN TrimLeft(Tail(s)) ELSE s

RECURSIVE TrimRight(_)
TrimRight(s) ==
    IF s # <<>> /\ s[Len(s)] \in WhiteSpace
    THEN TrimRight(SubSeq(s, 1, Len(s) - 1))
    ELSE s

TrimSpace(s) == TrimRight(TrimLeft(s))

RECURSIVE Join(_, _)
Join(elems, sep) ==
    IF elems = <<>> THEN <<>>
    ELSE IF Len(elems) = 1 THEN elems[1]
    ELSE elems[1] \o sep \o Join(Tail(elems), sep)

(***************************************************************************)
(* gjson.Result, as the program uses it.  A Result is a record: Type as in *)
(* gjson (Null, False, Number, String, True, JSON), Raw the first          *)
(* character class of the raw text ("" for a value that does not exist),   *)
(* Num and Str the decoded scalar, Members the key/value pairs of an       *)
(* object in document order, Elems the elements of an array.               *)
(***************************************************************************)
Missing ==
    [Type |-> "Null", Raw |-> "", Num |-> 0, Str |-> <<>>,
     Members |-> <<>>, Elems |-> <<>>]

JNull == [Missing EXCEPT !.Raw = "null"]
JTrue == [Missing EXCEPT !.Type = "True", !.Raw = "true"]
JFalse == [Missing EXCEPT !.Type = "False", !.Raw = "false"]
JNum(n) == [Missing EXCEPT !.Type = "Number", !.Raw = "0", !.Num = n]
JStr(s) == [Missing EXCEPT !.Type = "String", !.Raw = "s", !.Str = s]
JObj(members) == [Missing EXCEPT !.Type = "JSON", !.Raw = "{", !.Members = members]
JArr(elems) == [Missing EXCEPT !.Type = "JSON", !.Raw = "[", !.Elems = elems]

IsObject(r) == r.Type = "JSON" /\ r.Raw = "{"
IsArray(r) == r.Type = "JSON" /\ r.Raw = "["

Exists(r) == r.Type # "Null" \/ r.Raw # ""

\* Get of one path component: the first member of that name, or a Result
\* that does not exist.
Get(r, key) ==
    IF IsObject(r) /\ \E i \in 1..Len(r.Members) : r.Members[i][1] = key
    THEN LET i == CHOOSE k \in 1..Len(r.Members) :
                      /\ r.Members[k][1] = key
                      /\ \A j \in 1..(k - 1) : r.Members[j][1] # key
         IN  r.Members[i][2]
    ELSE Missing

\* Get of a dotted path, given as the sequence of its components.
RECURSIVE GetPath(_, _)
GetPath(r, path) ==
    IF path = <<>> THEN r ELSE GetPath(Get(r, Head(path)), Tail(path))

\* The numerals strconv.ParseFloat is given in the reports of the model.
Numerals == {0, 1, 30, 100, 7200}

ParseFloat(s) ==
    IF Len(s) = 1 /\ \E n \in Numerals : ToString(n) = s[1]
    THEN CHOOSE n \in Numerals : ToString(n) = s[1]
    ELSE 0

Float(r) ==
    CASE r.Type = "True" -> 1
      [] r.Type = "String" -> ParseFloat(r.Str)
      [] r.Type = "Number" -> r.Num
      [] OTHER -> 0

String(r) ==
    CASE r.Type = "Null" -> <<>>
      [] r.Type = "False" -> S("false")
      [] r.Type = "True" -> S("true")
      [] r.Type = "Number" -> S(ToString(r.Num))
      [] r.Type = "String" -> r.Str
      [] OTHER -> S(r.Raw)

Bool(r) ==
    CASE r.Type = "True" -> TRUE
      [] r.Type = "String" -> r.Str \in {S("1"), S("t"), S("true")}
      [] r.Type = "Number" -> r.Num # 0
      [] OTHER -> FALSE

Array(r) ==
    IF r.Type = "Null" THEN <<>>
    ELSE IF IsArray(r) THEN r.Elems
    ELSE <<r>>

\* ForEach: the sequence of (key, value) pairs the iterator is called with.
ForEach(r) ==
    IF ~Exists(r) THEN <<>>
    ELSE IF r.Type # "JSON" THEN << <<Missing, r>> >>
    ELSE IF IsObject(r)
         THEN [i \in 1..Len(r.Members) |->
                  <<JStr(S(r.Members[i][1])), r.Members[i][2]>>]
         ELSE [i \in 1..Len(r.Elems) |->
                  <<[Missing EXCEPT !.Type = "Number", !.Num = i - 1], r.Elems[i]>>]

\* Helpers of the repository that metrics.go calls (defined outside it).
GetStringIfExists(r, key, def) ==
    IF Exists(Get(r, key)) THEN String(Get(r, key)) ELSE def

GetFloatIfExists(r, key, def) ==
    IF Exists(Get(r, key)) THEN Float(Get(r, key)) ELSE def

(***************************************************************************)
(* The metric catalog: name and ordered label names of every descriptor.   *)
(***************************************************************************)
Desc(name, labels) == [name |-> name, variableLabels |-> labels]

metricSmartctlVersion ==
    Desc("smartctl_version",
         <<"json_format_version", "smartctl_version", "svn_revision", "build_info">>)

metricDeviceModel ==
    Desc("smartctl_device",
         <<"device", "interface", "protocol", "model_family", "model_name",
           "serial_number", "ata_additional_product_id", "firmware_version",
           "ata_version", "sata_version">>)

metricDeviceCapacityBlocks ==
    Desc("smartctl_device_capacity_blocks",
         <<"device", "model_family", "model_name", "serial_number">>)

metricDeviceCapacityBytes ==
    Desc("smartctl_device_capacity_bytes",
         <<"device", "model_family", "model_name", "serial_number">>)

metricDeviceBlockSize ==
    Desc("smartctl_device_block_size",
         <<"device", "model_family", "model_name", "serial_number", "blocks_type">>)

metricDeviceInterfaceSpeed ==
    Desc("smartctl_device_interface_speed",
         <<"device", "model_family", "model_name", "serial_number", "speed_type">>)

metricDeviceAttribute ==
    Desc("smartctl_device_attribute",
         <<"device", "model_family", "model_name", "serial_number",
           "attribute_name", "attribute_flags_short", "attribute_flags_long",
           "attribute_value_type", "attribute_id">>)

metricDevicePowerOnSeconds ==
    Desc("smartctl_device_power_on_seconds",
         <<"device", "model_family", "model_name", "serial_number">>)

metricDeviceRotationRate ==
    Desc("smartctl_device_rotation_rate",
         <<"device", "model_family", "model_name", "serial_number">>)

metricDeviceTemperature ==
    Desc("smartctl_device_temperature",
         <<"device", "model_family", "model_name", "serial_number",
           "temperature_type">>)

metricDevicePowerCycleCount ==
    Desc("smartctl_device_power_cycle_count",
         <<"device", "model_family", "model_name", "serial_number">>)

metricDeviceExitStatus ==
    Desc("smartctl_device_smartctl_exit_status",
         <<"device", "model_family", "model_name", "serial_number">>)

metricDeviceStatistics ==
    Desc("smartctl_device_statistics",
         <<"device", "model_family", "model_name", "serial_number",
           "statistic_table", "statistic_name", "statistic_flags_short",
           "statistic_flags_long">>)

metricCriticalWarning ==
    Desc("smartctl_device_critical_warning",
         <<"device", "model_family", "model_name", "serial_number">>)

metricAvailableSpare ==
    Desc("smartctl_device_available_spare",
         <<"device", "model_family", "model_name", "serial_number">>)

metricMediaErrors ==
    Desc("smartctl_device_media_errors",
         <<"device", "model_family", "model_name", "serial_number">>)

metricPercentageUsed ==
    Desc("smartctl_device_percentage_used",
         <<"device", "model_family", "model_name", "serial_number">>)

metricSmartStatus ==
    Desc("smartctl_device_smart_status",
         <<"device", "model_family", "model_name", "serial_number">>)

Catalog ==
    {metricSmartctlVersion, metricDeviceModel, metricDeviceCapacityBlocks, metricDeviceCapacityBytes,
     metricDeviceBlockSize, metricDeviceInterfaceSpeed, metricDeviceAttribute,
     metricDevicePowerOnSeconds, metricDeviceRotationRate,
     metricDeviceTemperature, metricDevicePowerCycleCount,
     metricDeviceExitStatus, metricDeviceStatistics, metricCriticalWarning,
     metricAvailableSpare, metricMediaErrors, metricPercentageUsed,
     metricSmartStatus}

\* prometheus.MustNewConstMetric(desc, valueType, value, labelValues...): the
\* observation handed to the channel.  It panics when the number of label
\* values differs from the number of label names of the descriptor (Panics).
MustNewConstMetric(desc, valueType, value, labelValues) ==
    [desc |-> desc.name, valueType |-> valueType, value |-> value,
     labelValues |-> labelValues]

Panics(m) ==
    \A d \in Catalog : d.name = m.desc => Len(d.variableLabels) # Len(m.labelValues)

(***************************************************************************)
(* NewSMARTctl and the twelve sub-steps.  Each mine* operator is the       *)
(* sequence of observations the function of that name sends to smart.ch,   *)
(* in the order it sends them, for the report j and the identity d.        *)
(***************************************************************************)
NewSMARTctl(j) ==
    [device |-> TrimSpace(String(GetPath(j, <<"device", "name">>))),
     serial |-> TrimSpace(String(Get(j, "serial_number"))),
     family |-> TrimSpace(String(Get(j, "model_family"))),
     model  |-> TrimSpace(String(Get(j, "model_name")))]

mineExitStatus(j, d) ==
    << MustNewConstMetric(metricDeviceExitStatus, "gauge",
           Float(GetPath(j, <<"smartctl", "exit_status">>)),
           <<d.device, d.family, d.model, d.serial>>) >>

\* Mutant of mineDevice: model family and model name change places.
mineDevice_FamilyModelSwapped(j, d) ==
    LET dev == Get(j, "device")
    IN  << MustNewConstMetric(metricDeviceModel, "gauge", 1,
               <<d.device,
                 String(Get(dev, "type")),
                 String(Get(dev, "protocol")),
                 d.model, d.family, d.serial,
                 GetStringIfExists(j, "ata_additional_product_id", S("unknown")),
                 String(Get(j, "firmware_version")),
                 String(GetPath(j, <<"ata_version", "string">>)),
                 String(GetPath(j, <<"sata_version", "string">>))>>) >>

mineDevice(j, d) ==
    LET dev == Get(j, "device")
    IN  << MustNewConstMetric(metricDeviceModel, "gauge", 1,
               <<d.device,
                 String(Get(dev, "type")),
                 String(Get(dev, "protocol")),
                 d.family, d.model, d.serial,
                 GetStringIfExists(j, "ata_additional_product_id", S("unknown")),
                 String(Get(j, "firmware_version")),
                 String(GetPath(j, <<"ata_version", "string">>)),
                 String(GetPath(j, <<"sata_version", "string">>))>>) >>

BlockSizeKey(blockType) ==
    IF blockType = "logical" THEN "logical_block_size" ELSE "physical_block_size"

\* Mutant of mineCapacity: the byte count is not emitted.
mineCapacity_NoBytes(j, d) ==
    LET capacity == Get(j, "user_capacity")
        blockTypes == <<"logical", "physical">>
    IN  << MustNewConstMetric(metricDeviceCapacityBlocks, "gauge",
               Float(Get(capacity, "blocks")),
               <<d.device, d.family, d.model, d.serial>>) >>
        \o [i \in 1..Len(blockTypes) |->
               MustNewConstMetric(metricDeviceBlockSize, "gauge",
                   Float(Get(j, BlockSizeKey(blockTypes[i]))),
                   <<d.device, d.family, d.model, d.serial, S(blockTypes[i])>>)]

mineCapacity(j, d) ==
    LET capacity == Get(j, "user_capacity")
        blockTypes == <<"logical", "physical">>
    IN  << MustNewConstMetric(metricDeviceCapacityBlocks, "gauge",
               Float(Get(capacity, "blocks")),
               <<d.device, d.family, d.model, d.serial>>),
           MustNewConstMetric(metricDeviceCapacityBytes, "gauge",
               Float(Get(capacity, "bytes")),
               <<d.device, d.family, d.model, d.serial>>) >>
        \o [i \in 1..Len(blockTypes) |->
               MustNewConstMetric(metricDeviceBlockSize, "gauge",
                   Float(Get(j, BlockSizeKey(blockTypes[i]))),
                   <<d.device, d.family, d.model, d.serial, S(blockTypes[i])>>)]

mineInterfaceSpeed(j, d) ==
    LET iSpeed == Get(j, "interface_speed")
        speedTypes == <<"max", "current">>
    IN  [i \in 1..Len(speedTypes) |->
            LET tSpeed == Get(iSpeed, speedTypes[i])
            IN  MustNewConstMetric(metricDeviceInterfaceSpeed, "gauge",
                    Float(Get(tSpeed, "units_per_second"))
                        * Float(Get(tSpeed, "bits_per_unit")),
                    <<d.device, d.family, d.model, d.serial, S(speedTypes[i])>>)]

\* Mutant of LongFlagsFrom: a flag counts when it exists, true or not.
RECURSIVE LongFlagsFrom_ExistsOnly(_, _, _, _)
LongFlagsFrom_ExistsOnly(flagsTree, flags, i, result) ==
    IF i > Len(flags) THEN result
    ELSE LET jFlag == Get(flagsTree, flags[i])
         IN  IF Exists(jFlag)
             THEN LongFlagsFrom_ExistsOnly(flagsTree, flags, i + 1,
                                           Append(result, S(flags[i])))
             ELSE LongFlagsFrom_ExistsOnly(flagsTree, flags, i + 1, result)

\* The loop of mineLongFlags from candidate i on, `result` collected so far.
RECURSIVE LongFlagsFrom(_, _, _, _)
LongFlagsFrom(flagsTree, flags, i, result) ==
    IF i > Len(flags) THEN result
    ELSE LET jFlag == Get(flagsTree, flags[i])
         IN  IF Exists(jFlag) /\ Bool(jFlag)
             THEN LongFlagsFrom(flagsTree, flags, i + 1, Append(result, S(flags[i])))
             ELSE LongFlagsFrom(flagsTree, flags, i + 1, result)

mineLongFlags(flagsTree, flags) ==
    Join(LongFlagsFrom(flagsTree, flags, 1, <<>>), S(","))

AttributeFlags ==
    <<"prefailure", "updated_online", "performance", "error_rate",
      "event_count", "auto_keep">>

StatisticsFlags ==
    <<"valid", "normalized", "supports_dsn", "monitored_condition_met">>

\* Mutant of AttributePaths: thresh is read from a path the report lacks.
AttributePaths_Threshold ==
    [value |-> <<"value">>, worst |-> <<"worst">>, thresh |-> <<"threshold">>,
     raw |-> <<"raw", "value">>]

\* The map literal ranged over by mineDeviceAttribute: label value -> path.
AttributePaths ==
    [value |-> <<"value">>, worst |-> <<"worst">>, thresh |-> <<"thresh">>,
     raw |-> <<"raw", "value">>]

\* `for key, path := range map`: Go leaves the iteration order of a map
\* unspecified and varies it from one range to the next, so a range visits
\* the keys in any one of their orders.
MapOrders ==
    {o \in [1..Cardinality(DOMAIN AttributePaths) -> DOMAIN AttributePaths] :
        \A a, b \in DOMAIN o : a # b => o[a] # o[b]}

\* The four sends for one table entry, the map ranged over in order `order`.
mineOneAttribute(attribute, d, order) ==
    LET name == TrimSpace(String(Get(attribute, "name")))
        flagsShort == TrimSpace(String(GetPath(attribute, <<"flags", "string">>)))
        flagsLong == mineLongFlags(Get(attribute, "flags"), AttributeFlags)
        id == String(Get(attribute, "id"))
    IN  [k \in 1..Len(order) |->
            MustNewConstMetric(metricDeviceAttribute, "gauge",
                Float(GetPath(attribute, AttributePaths[order[k]])),
                <<d.device, d.family, d.model, d.serial,
                  name, flagsShort, flagsLong, S(order[k]), id>>)]

AttributeTable(j) == Array(GetPath(j, <<"ata_smart_attributes", "table">>))

\* The loop over the table from entry i on; orders[i] is the order in which
\* the map is ranged over for entry i.
RECURSIVE AttributesFrom(_, _, _, _)
AttributesFrom(table, d, orders, i) ==
    IF i > Len(table) THEN <<>>
    ELSE mineOneAttribute(table[i], d, orders[i])
             \o AttributesFrom(table, d, orders, i + 1)

mineDeviceAttribute(j, d, orders) ==
    AttributesFrom(AttributeTable(j), d, orders, 1)

\* Mutant of minePowerOnSeconds: the minutes are added as seconds.
minePowerOnSeconds_MinutesAsSeconds(j, d) ==
    LET pot == Get(j, "power_on_time")
    IN  << MustNewConstMetric(metricDevicePowerOnSeconds, "counter",
               GetFloatIfExists(pot, "hours", 0) * 60 * 60
                   + GetFloatIfExists(pot, "minutes", 0),
               <<d.device, d.family, d.model, d.serial>>) >>

minePowerOnSeconds(j, d) ==
    LET pot == Get(j, "power_on_time")
    IN  << MustNewConstMetric(metricDevicePowerOnSeconds, "counter",
               GetFloatIfExists(pot, "hours", 0) * 60 * 60
                   + GetFloatIfExists(pot, "minutes", 0) * 60,
               <<d.device, d.family, d.model, d.serial>>) >>

\* Mutant of mineRotationRate: a rate of 0 is emitted too.
mineRotationRate_EmitsZero(j, d) ==
    LET rRate == GetFloatIfExists(j, "rotation_rate", 0)
    IN  IF rRate >= 0
        THEN << MustNewConstMetric(metricDeviceRotationRate, "gauge", rRate,
                    <<d.device, d.family, d.model, d.serial>>) >>
        ELSE <<>>

mineRotationRate(j, d) ==
    LET rRate == GetFloatIfExists(j, "rotation_rate", 0)
    IN  IF rRate > 0
        THEN << MustNewConstMetric(metricDeviceRotationRate, "gauge", rRate,
                    <<d.device, d.family, d.model, d.serial>>) >>
        ELSE <<>>

mineTemperatures(j, d) ==
    LET temperatures == Get(j, "temperature")
        calls == ForEach(temperatures)
    IN  IF Exists(temperatures)
        THEN [i \in 1..Len(calls) |->
                 MustNewConstMetric(metricDeviceTemperature, "gauge",
                     Float(calls[i][2]),
                     <<d.device, d.family, d.model, d.serial,
                       String(calls[i][1])>>)]
        ELSE <<>>

minePowerCycleCount(j, d) ==
    << MustNewConstMetric(metricDevicePowerCycleCount, "counter",
           Float(Get(j, "power_cycle_count")),
           <<d.device, d.family, d.model, d.serial>>) >>

mineStatisticsPage(page, d) ==
    LET table == TrimSpace(String(Get(page, "name")))
        entries == Array(Get(page, "table"))
    IN  [i \in 1..Len(entries) |->
            LET statistic == entries[i]
            IN  MustNewConstMetric(metricDeviceStatistics, "gauge",
                    Float(Get(statistic, "value")),
                    <<d.device, d.family, d.model, d.serial,
                      table,
                      TrimSpace(String(Get(statistic, "name"))),
                      TrimSpace(String(GetPath(statistic, <<"flags", "string">>))),
                      mineLongFlags(Get(statistic, "flags"), StatisticsFlags)>>)]

RECURSIVE StatisticsFrom(_, _, _)
StatisticsFrom(pages, d, i) ==
    IF i > Len(pages) THEN <<>>
    ELSE mineStatisticsPage(pages[i], d) \o StatisticsFrom(pages, d, i + 1)

mineDeviceStatistics(j, d) ==
    StatisticsFrom(Array(GetPath(j, <<"ata_device_statistics", "pages">>)), d, 1)

\* `iHealth == nil`: iHealth is a gjson.Result, a struct value; Get returns
\* one for every path, also a missing one, and a struct value is never nil.
IsNil(r) == FALSE

mineNvmeSmartHealthInformationLog(j, d) ==
    LET iHealth == Get(j, "nvme_smart_health_information_log")
    IN  IF IsNil(iHealth) THEN <<>>
        ELSE << MustNewConstMetric(metricCriticalWarning, "gauge",
                    Float(Get(iHealth, "critical_warning")),
                    <<d.device, d.family, d.model, d.serial>>),
                MustNewConstMetric(metricAvailableSpare, "gauge",
                    Float(Get(iHealth, "available_spare")),
                    <<d.device, d.family, d.model, d.serial>>),
                MustNewConstMetric(metricMediaErrors, "gauge",
                    Float(Get(iHealth, "media_errors")),
                    <<d.device, d.family, d.model, d.serial>>),
                MustNewConstMetric(metricPercentageUsed, "gauge",
                    Float(Get(iHealth, "percentage_used")),
                    <<d.device, d.family, d.model, d.serial>>) >>

mineSmartStatus(j, d) ==
    LET iStatus == Get(j, "smart_status")
    IN  << MustNewConstMetric(metricSmartStatus, "gauge",
               Float(Get(iStatus, "passed")),
               <<d.device, d.family, d.model, d.serial>>) >>

(***************************************************************************)
(* The reports of the model.  A report is put together from one option per *)
(* group of fields; the reports are those that differ in at most one group *)
(* from the report with every documented field or from the empty report.   *)
(***************************************************************************)
Cycle(samples, i) == samples[((i - 1) % Len(samples)) + 1]

AttrSamples ==
    << JObj(<< <<"id", JNum(5)>>,
               <<"name", JStr(S("Reallocated_Sector_Ct"))>>,
               <<"value", JNum(100)>>, <<"worst", JNum(100)>>,
               <<"thresh", JNum(10)>>,
               <<"flags", JObj(<< <<"value", JNum(51)>>,
                                  <<"string", JStr(<<"PO--CK", " ">>)>>,
                                  <<"prefailure", JTrue>>,
                                  <<"updated_online", JTrue>>,
                                  <<"performance", JFalse>>,
                                  <<"error_rate", JFalse>>,
                                  <<"event_count", JTrue>>,
                                  <<"auto_keep", JTrue>> >>)>>,
               <<"raw", JObj(<< <<"value", JNum(0)>>,
                                <<"string", JStr(S("0"))>> >>)>> >>),
       JObj(<< <<"id", JNum(9)>>,
               <<"name", JStr(<<" ", "Power_On_Hours", " ">>)>>,
               <<"value", JNum(99)>>,
               <<"flags", JObj(<< <<"auto_keep", JTrue>>,
                                  <<"prefailure", JTrue>> >>)>>,
               <<"raw", JObj(<< <<"value", JNum(1234)>> >>)>> >>),
       JObj(<< <<"id", JNum(194)>>,
               <<"worst", JNum(40)>>, <<"thresh", JNum(7)>>,
               <<"raw", JNum(33)>> >>) >>

TempSamples ==
    << <<"current", JNum(30)>>, <<"drive_trip", JNum(60)>>,
       <<"power_cycle_min", JNull>> >>

StatSamples ==
    << JObj(<< <<"name", JStr(S("Lifetime Power-On Resets"))>>,
               <<"value", JNum(12)>>,
               <<"flags", JObj(<< <<"string", JStr(<<"V---", " ">>)>>,
                                  <<"valid", JTrue>>,
                                  <<"normalized", JFalse>>,
                                  <<"supports_dsn", JFalse>>,
                                  <<"monitored_condition_met", JFalse>> >>)>> >>),
       JObj(<< <<"name", JStr(S("Power-on Hours"))>>,
               <<"value", JNum(34)>>,
               <<"flags", JObj(<< <<"monitored_condition_met", JTrue>>,
                                  <<"valid", JTrue>> >>)>> >>),
       JObj(<< <<"value", JNum(56)>> >>) >>

StatPage(name, n) ==
    JObj(<< <<"name", JStr(name)>>,
            <<"table", JArr([i \in 1..n |-> Cycle(StatSamples, i)])>> >>)

Options ==
    [smartctl |-> {"absent", "full"},
     identity |-> {"absent", "partial", "full"},
     capacity |-> {"absent", "partial", "full"},
     speed |-> {"absent", "partial", "full"},
     attrs |-> (0 - 1)..MaxAttrs,
     power_on |-> {"absent", "hours", "minutes", "full"},
     rotation |-> {"absent", "zero", "full"},
     temps |-> (0 - 1)..MaxTemps,
     cycles |-> {"absent", "full"},
     stats |-> (0 - 1)..MaxStats,
     nvme |-> {"absent", "empty", "full"},
     status |-> {"absent", "failed", "full"}]

Groups == DOMAIN Options

FullOptions ==
    [smartctl |-> "full", identity |-> "full", capacity |-> "full",
     speed |-> "full", attrs |-> 1, power_on |-> "full", rotation |-> "full",
     temps |-> 1, cycles |-> "full", stats |-> 1, nvme |-> "full",
     status |-> "full"]

EmptyOptions ==
    [smartctl |-> "absent", identity |-> "absent", capacity |-> "absent",
     speed |-> "absent", attrs |-> 0 - 1, power_on |-> "absent",
     rotation |-> "absent", temps |-> 0 - 1, cycles |-> "absent",
     stats |-> 0 - 1, nvme |-> "absent", status |-> "absent"]

Members(o) ==
    (CASE o.smartctl = "full" ->
              << <<"smartctl", JObj(<< <<"exit_status", JNum(4)>> >>)>> >>
       [] OTHER -> <<>>)
    \o (CASE o.identity = "full" ->
              << <<"device", JObj(<< <<"name", JStr(<<" ", "/dev/sda", " ">>)>>,
                                     <<"type", JStr(S("sat"))>>,
                                     <<"protocol", JStr(S("ATA"))>> >>)>>,
                 <<"model_family", JStr(<<"WD", " ", "Red", " ">>)>>,
                 <<"model_name", JStr(S("WDC WD40EFRX"))>>,
                 <<"serial_number", JStr(S("WD-1234"))>>,
                 <<"ata_additional_product_id", JStr(S("HP"))>>,
                 <<"firmware_version", JStr(S("82.00A82"))>>,
                 <<"ata_version", JObj(<< <<"string", JStr(S("ACS-2"))>> >>)>>,
                 <<"sata_version", JObj(<< <<"string", JStr(S("SATA 3.0"))>> >>)>> >>
          [] o.identity = "partial" ->
              << <<"device", JObj(<< <<"name", JStr(S("/dev/nvme0"))>> >>)>>,
                 <<"model_name", JStr(S("Samsung 970"))>> >>
          [] OTHER -> <<>>)
    \o (CASE o.capacity = "full" ->
              << <<"user_capacity", JObj(<< <<"blocks", JNum(7814)>>,
                                            <<"bytes", JNum(4000787)>> >>)>>,
                 <<"logical_block_size", JNum(512)>>,
                 <<"physical_block_size", JNum(4096)>> >>
          [] o.capacity = "partial" ->
              << <<"user_capacity", JObj(<< <<"bytes", JNum(4000787)>> >>)>>,
                 <<"logical_block_size", JNum(512)>> >>
          [] OTHER -> <<>>)
    \o (CASE o.speed = "full" ->
              << <<"interface_speed",
                   JObj(<< <<"max", JObj(<< <<"units_per_second", JNum(60)>>,
                                            <<"bits_per_unit", JNum(1000)>> >>)>>,
                           <<"current", JObj(<< <<"units_per_second", JNum(30)>>,
                                                <<"bits_per_unit", JNum(1000)>> >>)>> >>)>> >>
          [] o.speed = "partial" ->
              << <<"interface_speed",
                   JObj(<< <<"max", JObj(<< <<"units_per_second", JNum(60)>> >>)>> >>)>> >>
          [] OTHER -> <<>>)
    \o (IF o.attrs >= 0
        THEN << <<"ata_smart_attributes",
                  JObj(<< <<"revision", JNum(16)>>,
                          <<"table", JArr([i \in 1..o.attrs |->
                                              Cycle(AttrSamples, i)])>> >>)>> >>
        ELSE <<>>)
    \o (CASE o.power_on = "full" ->
              << <<"power_on_time", JObj(<< <<"hours", JNum(100)>>,
                                            <<"minutes", JNum(30)>> >>)>> >>
          [] o.power_on = "hours" ->
              << <<"power_on_time", JObj(<< <<"hours", JNum(100)>> >>)>> >>
          [] o.power_on = "minutes" ->
              << <<"power_on_time", JObj(<< <<"minutes", JNum(30)>> >>)>> >>
          [] OTHER -> <<>>)
    \o (CASE o.rotation = "full" -> << <<"rotation_rate", JNum(7200)>> >>
          [] o.rotation = "zero" -> << <<"rotation_rate", JNum(0)>> >>
          [] OTHER -> <<>>)
    \o (IF o.temps >= 0
        THEN << <<"temperature",
                  JObj([i \in 1..o.temps |-> Cycle(TempSamples, i)])>> >>
        ELSE <<>>)
    \o (CASE o.cycles = "full" -> << <<"power_cycle_count", JNum(77)>> >>
          [] OTHER -> <<>>)
    \o (IF o.stats >= 1
        THEN << <<"ata_device_statistics",
                  JObj(<< <<"pages",
                            JArr(<< StatPage(<<"General Statistics", " ">>, o.stats),
                                    StatPage(S("Temperature Statistics"),
                                             o.stats - 1) >>)>> >>)>> >>
        ELSE IF o.stats = 0
        THEN << <<"ata_device_statistics", JObj(<< <<"pages", JArr(<<>>)>> >>)>> >>
        ELSE <<>>)
    \o (CASE o.nvme = "full" ->
              << <<"nvme_smart_health_information_log",
                   JObj(<< <<"critical_warning", JNum(1)>>,
                           <<"available_spare", JNum(100)>>,
                           <<"media_errors", JNum(3)>>,
                           <<"percentage_used", JNum(9)>> >>)>> >>
          [] o.nvme = "empty" ->
              << <<"nvme_smart_health_information_log", JObj(<<>>)>> >>
          [] OTHER -> <<>>)
    \o (CASE o.status = "full" ->
              << <<"smart_status", JObj(<< <<"passed", JTrue>> >>)>> >>
          [] o.status = "failed" ->
              << <<"smart_status", JObj(<< <<"passed", JFalse>> >>)>> >>
          [] OTHER -> <<>>)

Report(o) == JObj(Members(o))

OptionVectors ==
    UNION {{[b EXCEPT ![g] = v] : v \in Options[g]} :
              <<b, g>> \in {FullOptions, EmptyOptions} \X Groups}

FullReport == Report(FullOptions)

Reports == {Report(o) : o \in OptionVectors}

(***************************************************************************)
(* Collect.  pc names the sub-step Collect calls next; a sub-step computes *)
(* its observations from the (immutable) report and sends them one by one. *)
(* A send `smart.ch <- m` completes only when the channel accepts the      *)
(* value: sinkReady says that it would accept one now (a receiver waits,   *)
(* or its buffer has room); what the sink does is up to the caller.        *)
(***************************************************************************)
SubSteps ==
    <<"mineExitStatus", "mineDevice", "mineCapacity", "mineInterfaceSpeed",
      "mineDeviceAttribute", "minePowerOnSeconds", "mineRotationRate",
      "mineTemperatures", "minePowerCycleCount", "mineDeviceStatistics",
      "mineNvmeSmartHealthInformationLog", "mineSmartStatus">>

StepIndex(step) == CHOOSE i \in 1..Len(SubSteps) : SubSteps[i] = step

\* Mutant of After: Collect returns after mineRotationRate when the report
\* has no rotation_rate.
After_StopsWithoutRotation(step) ==
    IF StepIndex(step) = Len(SubSteps) THEN "done"
    ELSE IF step = "mineRotationRate" /\ ~Exists(Get(json, "rotation_rate"))
    THEN "done"
    ELSE SubSteps[StepIndex(step) + 1]

After(step) ==
    IF StepIndex(step) = Len(SubSteps) THEN "done"
    ELSE SubSteps[StepIndex(step) + 1]

FirstPanic(obs) ==
    IF \E i \in 1..Len(obs) : Panics(obs[i])
    THEN CHOOSE i \in 1..Len(obs) :
             Panics(obs[i]) /\ \A k \in 1..(i - 1) : ~Panics(obs[k])
    ELSE 0

\* Mutant of CallGuard: Collect waits for the sink before it calls a sub-step.
CallGuard_WaitsForSink(step) == pc = step /\ pending = <<>> /\ sinkReady

\* Collect calls `step` once it has reached it and the sub-step before it
\* has returned, that is, has completed its sends.
CallGuard(step) == pc = step /\ pending = <<>>

\* A send on the channel proceeds when the channel accepts the value, and
\* blocks the sender until then.
SendGuard == pending # <<>> /\ sinkReady

\* Collect calls sub-step `step`, which is to send `obs`: the sends before
\* the first panicking MustNewConstMetric are performed.
Call(step, obs) ==
    /\ CallGuard(step)
    /\ IF FirstPanic(obs) = 0
       THEN pending' = obs /\ pc' = After(step)
       ELSE pending' = SubSeq(obs, 1, FirstPanic(obs) - 1) /\ pc' = "panic"
    /\ UNCHANGED <<json, device, ch, sinkReady, pass, prev,
                   flagsJson, flagsList, flagsOut, flagsPc>>

Collect_mineExitStatus == Call("mineExitStatus", mineExitStatus(json, device))

Collect_mineDevice == Call("mineDevice", mineDevice(json, device))

Collect_mineCapacity == Call("mineCapacity", mineCapacity(json, device))

Collect_mineInterfaceSpeed ==
    Call("mineInterfaceSpeed", mineInterfaceSpeed(json, device))

Collect_mineDeviceAttribute ==
    /\ pc = "mineDeviceAttribute"
    /\ \E orders \in [1..Len(AttributeTable(json)) -> MapOrders] :
           Call("mineDeviceAttribute", mineDeviceAttribute(json, device, orders))

Collect_minePowerOnSeconds ==
    Call("minePowerOnSeconds", minePowerOnSeconds(json, device))

Collect_mineRotationRate ==
    Call("mineRotationRate", mineRotationRate(json, device))

Collect_mineTemperatures ==
    Call("mineTemperatures", mineTemperatures(json, device))

Collect_minePowerCycleCount ==
    Call("minePowerCycleCount", minePowerCycleCount(json, device))

Collect_mineDeviceStatistics ==
    Call("mineDeviceStatistics", mineDeviceStatistics(json, device))

Collect_mineNvmeSmartHealthInformationLog ==
    Call("mineNvmeSmartHealthInformationLog",
         mineNvmeSmartHealthInformationLog(json, device))

Collect_mineSmartStatus == Call("mineSmartStatus", mineSmartStatus(json, device))

\* One `smart.ch <- m` completes: the channel takes the value.
Send ==
    /\ SendGuard
    /\ ch' = Append(ch, Head(pending))
    /\ pending' = Tail(pending)
    /\ sinkReady' \in BOOLEAN
    /\ UNCHANGED <<json, device, pc, pass, prev,
                   flagsJson, flagsList, flagsOut, flagsPc>>

\* The sink comes back to the channel (the caller's side of smart.ch).
SinkReceive ==
    /\ ~sinkReady
    /\ sinkReady' = TRUE
    /\ UNCHANGED <<json, device, pc, pending, ch, pass, prev,
                   flagsJson, flagsList, flagsOut, flagsPc>>

\* The steps Collect takes itself.
CollectStep ==
    \/ Collect_mineExitStatus
    \/ Collect_mineDevice
    \/ Collect_mineCapacity
    \/ Collect_mineInterfaceSpeed
    \/ Collect_mineDeviceAttribute
    \/ Collect_minePowerOnSeconds
    \/ Collect_mineRotationRate
    \/ Collect_mineTemperatures
    \/ Collect_minePowerCycleCount
    \/ Collect_mineDeviceStatistics
    \/ Collect_mineNvmeSmartHealthInformationLog
    \/ Collect_mineSmartStatus
    \/ Send

Done == pc = "done" /\ pending = <<>>

\* Collect can take a step of its own: call the next sub-step or complete a send.
CanStep == SendGuard \/ \E step \in Range(SubSteps) : CallGuard(step)

InitPass(reports) ==
    /\ json \in reports
    /\ device = NewSMARTctl(json)
    /\ pc = SubSteps[1]
    /\ pending = <<>>
    /\ ch = <<>>
    /\ sinkReady = FALSE
    /\ pass = 1
    /\ prev = <<>>
    /\ flagsJson = Missing
    /\ flagsList = <<>>
    /\ flagsOut = <<>>
    /\ flagsPc = "idle"

Init == InitPass(Reports)

Next == CollectStep \/ SinkReceive

Spec == Init /\ [][Next]_vars

(***************************************************************************)
(* Two passes over the same report: a second mapper is constructed over    *)
(* the report once the first pass has completed, with a fresh sink.        *)
(***************************************************************************)
TwoPassReports == {r \in Reports : Len(AttributeTable(r)) <= 1}

SecondPass ==
    /\ Done
    /\ pass = 1
    /\ pass' = 2
    /\ prev' = ch
    /\ ch' = <<>>
    /\ device' = NewSMARTctl(json)
    /\ pc' = SubSteps[1]
    /\ UNCHANGED <<json, pending, sinkReady, flagsJson, flagsList, flagsOut, flagsPc>>

InitTwoPass == InitPass(TwoPassReports)

NextTwoPass == CollectStep \/ SinkReceive \/ SecondPass

SpecTwoPass == InitTwoPass /\ [][NextTwoPass]_vars

(***************************************************************************)
(* mineLongFlags alone, on flags sub-trees of every shape.                 *)
(***************************************************************************)
FlagKeys ==
    {"prefailure", "performance", "auto_keep", "valid",
     "monitored_condition_met", "string"}

FlagValues == {JTrue, JFalse, JNull}

\* The objects of at most MaxFlagKeys members with distinct keys, in every
\* document order, and the sub-tree that does not exist.
FlagTrees ==
    {Missing} \cup
    UNION {{JObj([i \in 1..n |-> <<ks[i], vs[i]>>]) :
               <<ks, vs>> \in {k \in [1..n -> FlagKeys] :
                                  \A a, b \in 1..n : a # b => k[a] # k[b]}
                              \X [1..n -> FlagValues]} :
           n \in 0..MaxFlagKeys}

InitFlags ==
    /\ json = Missing
    /\ device = NewSMARTctl(Missing)
    /\ pc = "done"
    /\ pending = <<>>
    /\ ch = <<>>
    /\ sinkReady = FALSE
    /\ pass = 1
    /\ prev = <<>>
    /\ flagsJson \in FlagTrees
    /\ flagsList \in {AttributeFlags, StatisticsFlags}
    /\ flagsOut = <<>>
    /\ flagsPc = "call"

Call_mineLongFlags ==
    /\ flagsPc = "call"
    /\ flagsOut' = mineLongFlags(flagsJson, flagsList)
    /\ flagsPc' = "return"
    /\ UNCHANGED <<json, device, pc, pending, ch, sinkReady, pass, prev,
                   flagsJson, flagsList>>

NextFlags == Call_mineLongFlags

SpecFlags == InitFlags /\ [][NextFlags]_vars

(***************************************************************************)
(* Vocabulary of the properties.                                           *)
(***************************************************************************)
\* The observations among seq that belong to one of the descriptors descs.
Of(seq, descs) == SelectSeq(seq, LAMBDA m : \E d \in descs : d.name = m.desc)

Count(seq, descs) == Len(Of(seq, descs))

NvmeDescs ==
    {metricCriticalWarning, metricAvailableSpare, metricMediaErrors,
     metricPercentageUsed}

\* The descriptors each of the twelve sub-steps emits to, in Collect's order.
StepDescs ==
    << {metricDeviceExitStatus}, {metricDeviceModel},
       {metricDeviceCapacityBlocks, metricDeviceCapacityBytes, metricDeviceBlockSize},
       {metricDeviceInterfaceSpeed}, {metricDeviceAttribute},
       {metricDevicePowerOnSeconds}, {metricDeviceRotationRate},
       {metricDeviceTemperature}, {metricDevicePowerCycleCount},
       {metricDeviceStatistics}, NvmeDescs, {metricSmartStatus} >>

StepOf(m) ==
    IF \E i \in 1..Len(StepDescs) : \E d \in StepDescs[i] : d.name = m.desc
    THEN CHOOSE i \in 1..Len(StepDescs) : \E d \in StepDescs[i] : d.name = m.desc
    ELSE 0

Identity == <<device.device, device.family, device.model, device.serial>>

NvmeLog == Get(json, "nvme_smart_health_information_log")

(***************************************************************************)
(* C1: for a report without nvme_smart_health_information_log a completed  *)
(* pass has emitted no observation of the four NVMe metrics.               *)
(***************************************************************************)
C1_NoNvmeWithoutLog ==
    (Done /\ ~Exists(NvmeLog)) => Count(ch, NvmeDescs) = 0

(***************************************************************************)
(* C2: two passes over the same report deliver the same sequence of        *)
(* observations to the sink.                                               *)
(***************************************************************************)
C2_SameSequenceTwice ==
    (pass = 2 /\ Done) => ch = prev

(***************************************************************************)
(* C3: every observation, when it is handed to the channel (it is then the *)
(* last of ch) and while it waits to be handed over, carries               *)
(* exactly as many label values as its descriptor declares label names,    *)
(* and each value is one that belongs under the label of its slot: the     *)
(* pass's device, model family, model name and serial number under device, *)
(* model_family, model_name and serial_number; no MustNewConstMetric       *)
(* panics.                                                                 *)
(***************************************************************************)
StatisticsPages == Array(GetPath(json, <<"ata_device_statistics", "pages">>))

StatisticsEntries ==
    UNION {Range(Array(Get(page, "table"))) : page \in Range(StatisticsPages)}

\* The values that belong under a label name, for the report of the pass.
LabelValues(label) ==
    CASE label = "device" ->
             {TrimSpace(String(GetPath(json, <<"device", "name">>)))}
      [] label = "model_family" -> {TrimSpace(String(Get(json, "model_family")))}
      [] label = "model_name" -> {TrimSpace(String(Get(json, "model_name")))}
      [] label = "serial_number" -> {TrimSpace(String(Get(json, "serial_number")))}
      [] label = "interface" -> {String(GetPath(json, <<"device", "type">>))}
      [] label = "protocol" -> {String(GetPath(json, <<"device", "protocol">>))}
      [] label = "ata_additional_product_id" ->
             {IF Exists(Get(json, "ata_additional_product_id"))
              THEN String(Get(json, "ata_additional_product_id"))
              ELSE S("unknown")}
      [] label = "firmware_version" -> {String(Get(json, "firmware_version"))}
      [] label = "ata_version" -> {String(GetPath(json, <<"ata_version", "string">>))}
      [] label = "sata_version" -> {String(GetPath(json, <<"sata_version", "string">>))}
      [] label = "blocks_type" -> {S("logical"), S("physical")}
      [] label = "speed_type" -> {S("max"), S("current")}
      [] label = "attribute_name" ->
             {TrimSpace(String(Get(e, "name"))) : e \in Range(AttributeTable(json))}
      [] label = "attribute_flags_short" ->
             {TrimSpace(String(GetPath(e, <<"flags", "string">>))) :
                 e \in Range(AttributeTable(json))}
      [] label = "attribute_flags_long" ->
             {mineLongFlags(Get(e, "flags"), AttributeFlags) :
                 e \in Range(AttributeTable(json))}
      [] label = "attribute_value_type" ->
             {S("value"), S("worst"), S("thresh"), S("raw")}
      [] label = "attribute_id" ->
             {String(Get(e, "id")) : e \in Range(AttributeTable(json))}
      [] label = "temperature_type" ->
             {String(c[1]) : c \in Range(ForEach(Get(json, "temperature")))}
      [] label = "statistic_table" ->
             {TrimSpace(String(Get(page, "name"))) : page \in Range(StatisticsPages)}
      [] label = "statistic_name" ->
             {TrimSpace(String(Get(e, "name"))) : e \in StatisticsEntries}
      [] label = "statistic_flags_short" ->
             {TrimSpace(String(GetPath(e, <<"flags", "string">>))) :
                 e \in StatisticsEntries}
      [] label = "statistic_flags_long" ->
             {mineLongFlags(Get(e, "flags"), StatisticsFlags) :
                 e \in StatisticsEntries}
      [] OTHER -> {}

MatchesCatalog(m) ==
    \E d \in Catalog :
        /\ d.name = m.desc
        /\ Len(m.labelValues) = Len(d.variableLabels)
        /\ \A i \in 1..Len(d.variableLabels) :
               m.labelValues[i] \in LabelValues(d.variableLabels[i])

C3_LabelsMatchCatalog ==
    /\ pc # "panic"
    /\ \A m \in Range(pending) : MatchesCatalog(m)
    /\ ch # <<>> => MatchesCatalog(ch[Len(ch)])

\* A completed pass over the report with every field: every metric of the
\* twelve sub-steps was emitted, with four different identity values.
C3_Witness ==
    /\ Done
    /\ json = FullReport
    /\ \A i \in 1..Len(StepDescs) : \A d \in StepDescs[i] : Count(ch, {d}) >= 1
    /\ Cardinality(Range(Identity)) = Len(Identity)

(***************************************************************************)
(* C4 (as claimed): for a report with every documented field a completed   *)
(* pass has emitted one observation for each of steps 1, 2, 6, 9 and 12,   *)
(* three for step 3, two for step 4, one per entry for steps 5, 8, 10 and  *)
(* 11, and nothing else.                                                   *)
(***************************************************************************)
DocumentedPaths ==
    {<<"smartctl", "exit_status">>, <<"device", "name">>, <<"device", "type">>,
     <<"device", "protocol">>, <<"model_family">>, <<"model_name">>,
     <<"serial_number">>, <<"ata_additional_product_id">>,
     <<"firmware_version">>, <<"ata_version", "string">>,
     <<"sata_version", "string">>, <<"user_capacity", "blocks">>,
     <<"user_capacity", "bytes">>, <<"logical_block_size">>,
     <<"physical_block_size">>,
     <<"interface_speed", "max", "units_per_second">>,
     <<"interface_speed", "max", "bits_per_unit">>,
     <<"interface_speed", "current", "units_per_second">>,
     <<"interface_speed", "current", "bits_per_unit">>,
     <<"ata_smart_attributes", "table">>, <<"power_on_time", "hours">>,
     <<"power_on_time", "minutes">>, <<"rotation_rate">>, <<"temperature">>,
     <<"power_cycle_count">>, <<"ata_device_statistics", "pages">>,
     <<"nvme_smart_health_information_log", "critical_warning">>,
     <<"nvme_smart_health_information_log", "available_spare">>,
     <<"nvme_smart_health_information_log", "media_errors">>,
     <<"nvme_smart_health_information_log", "percentage_used">>,
     <<"smart_status", "passed">>}

HasEveryField(j) == \A path \in DocumentedPaths : Exists(GetPath(j, path))

StepCount(i) == Count(ch, StepDescs[i])

TemperatureEntries == Len(Get(json, "temperature").Members)

RECURSIVE EntriesOf(_)
EntriesOf(pages) ==
    IF pages = <<>> THEN 0
    ELSE Len(Array(Get(Head(pages), "table"))) + EntriesOf(Tail(pages))

C4_OnePerEntry ==
    (Done /\ HasEveryField(json)) =>
        /\ StepCount(1) = 1
        /\ StepCount(2) = 1
        /\ StepCount(3) = 3
        /\ StepCount(4) = 2
        /\ StepCount(5) = Len(AttributeTable(json))
        /\ StepCount(6) = 1
        /\ StepCount(8) = TemperatureEntries
        /\ StepCount(9) = 1
        /\ StepCount(10) = EntriesOf(StatisticsPages)
        /\ StepCount(11) = Len(NvmeLog.Members)
        /\ StepCount(12) = 1
        /\ Len(ch) = 10 + Len(AttributeTable(json)) + TemperatureEntries
                        + EntriesOf(StatisticsPages) + Len(NvmeLog.Members)

(***************************************************************************)
(* C4 (amended): for a report with every documented field a completed pass *)
(* has emitted one observation for each of steps 1, 2, 6, 9 and 12, four   *)
(* for step 3 (blocks, bytes, and one block size per kind), two for step   *)
(* 4, four per attribute-table entry for step 5, one for step 7 exactly    *)
(* when rotation_rate is greater than 0, one per child of temperature for  *)
(* step 8, one per table entry of every page for step 10, four for step    *)
(* 11, and nothing else.                                                   *)
(***************************************************************************)
RotationObservations == IF Float(Get(json, "rotation_rate")) > 0 THEN 1 ELSE 0

C4_CountsPerStep ==
    (Done /\ HasEveryField(json)) =>
        /\ StepCount(1) = 1
        /\ StepCount(2) = 1
        /\ Count(ch, {metricDeviceCapacityBlocks}) = 1
        /\ Count(ch, {metricDeviceCapacityBytes}) = 1
        /\ Count(ch, {metricDeviceBlockSize}) = 2
        /\ StepCount(4) = 2
        /\ StepCount(5) = 4 * Len(AttributeTable(json))
        /\ StepCount(6) = 1
        /\ StepCount(7) = RotationObservations
        /\ StepCount(8) = TemperatureEntries
        /\ StepCount(9) = 1
        /\ StepCount(10) = EntriesOf(StatisticsPages)
        /\ \A d \in NvmeDescs : Count(ch, {d}) = 1
        /\ StepCount(12) = 1
        /\ Len(ch) = 15 + 4 * Len(AttributeTable(json)) + RotationObservations
                        + TemperatureEntries + EntriesOf(StatisticsPages)

\* A completed pass over a report with every field, a non-empty attribute
\* table, a spinning disk and statistics on two pages.
C4_Witness ==
    /\ Done
    /\ HasEveryField(json)
    /\ Len(AttributeTable(json)) >= 1
    /\ RotationObservations = 1
    /\ Len(StatisticsPages) = 2
    /\ Len(ch) >= 20

(***************************************************************************)
(* C5: for every entry of ata_smart_attributes.table the attribute step    *)
(* emits exactly four gauge observations, which carry the identity, the    *)
(* entry's name, short flags, long flags and id, and differ in the         *)
(* value-type label, which is value, worst, thresh and raw once each, with *)
(* the number read from value, worst, thresh and raw.value respectively;   *)
(* an absent or empty table yields no attribute observation.               *)
(***************************************************************************)
ValueTypes == {"value", "worst", "thresh", "raw"}

ValueRead(entry, type) ==
    CASE type = "value" -> Float(Get(entry, "value"))
      [] type = "worst" -> Float(Get(entry, "worst"))
      [] type = "thresh" -> Float(Get(entry, "thresh"))
      [] type = "raw" -> Float(Get(Get(entry, "raw"), "value"))

ExpectedAttribute(entry, type) ==
    [desc |-> "smartctl_device_attribute",
     valueType |-> "gauge",
     value |-> ValueRead(entry, type),
     labelValues |->
         Identity \o
         <<TrimSpace(String(Get(entry, "name"))),
           TrimSpace(String(Get(Get(entry, "flags"), "string"))),
           mineLongFlags(Get(entry, "flags"), AttributeFlags),
           S(type),
           String(Get(entry, "id"))>>]

C5_FourPerAttribute ==
    Done =>
        LET emitted == Of(ch, {metricDeviceAttribute})
            table == AttributeTable(json)
        IN  /\ Len(emitted) = 4 * Len(table)
            /\ \A i \in 1..Len(table) :
                   /\ {emitted[4 * (i - 1) + k] : k \in 1..4}
                          = {ExpectedAttribute(table[i], t) : t \in ValueTypes}
                   /\ \A t \in ValueTypes :
                          Cardinality({k \in 1..4 :
                              emitted[4 * (i - 1) + k].labelValues[8] = S(t)}) = 1
            /\ (~Exists(GetPath(json, <<"ata_smart_attributes", "table">>))
                    \/ table = <<>>)
                   => emitted = <<>>

\* A completed pass over a table whose first entry is the one of the
\* specification's example (value 100, worst 100, thresh 10, raw.value 0).
C5_Witness ==
    /\ Done
    /\ Len(AttributeTable(json)) >= 1
    /\ {m.value : m \in Range(Of(ch, {metricDeviceAttribute}))} = {100, 10, 0}
    /\ Count(ch, {metricDeviceAttribute}) = 4 * Len(AttributeTable(json))

(***************************************************************************)
(* C6: the string mineLongFlags returns is the comma-joined list of        *)
(* exactly the candidate names that are members of the sub-tree with the   *)
(* value true, in the order of the candidate list and each once; it is     *)
(* empty when the sub-tree is absent or no candidate is true in it.        *)
(***************************************************************************)
\* The positions, in the candidate list, of the candidates that are present
\* and true in the sub-tree.
TrueCandidates(tree, candidates) ==
    {i \in 1..Len(candidates) :
        \E k \in 1..Len(tree.Members) :
            tree.Members[k] = <<candidates[i], JTrue>>}

\* The n-th smallest element of a set of numbers.
Nth(set, n) == CHOOSE i \in set : Cardinality({k \in set : k < i}) = n - 1

C6_LongFlags ==
    flagsPc = "return" =>
        LET true == TrueCandidates(flagsJson, flagsList)
        IN  /\ Len(flagsOut) = IF true = {} THEN 0 ELSE 2 * Cardinality(true) - 1
            /\ \A p \in 1..Len(flagsOut) :
                   flagsOut[p] = IF p % 2 = 1
                                 THEN flagsList[Nth(true, (p + 1) \div 2)]
                                 ELSE ","

\* mineLongFlags has returned two names, for a sub-tree that lists them in
\* the opposite order of the candidate list.
C6_Witness ==
    /\ flagsPc = "return"
    /\ flagsList = AttributeFlags
    /\ flagsJson.Members = << <<"auto_keep", JTrue>>, <<"prefailure", JTrue>> >>
    /\ flagsOut = <<"prefailure", ",", "auto_keep">>

(***************************************************************************)
(* C7: a completed pass has emitted no rotation-rate observation when      *)
(* rotation_rate is absent or 0, and exactly one, a gauge whose value is   *)
(* rotation_rate, when it is present and greater than 0; in both cases the *)
(* sub-steps after it have run (temperature, power cycle count, device     *)
(* statistics, SMART status).                                              *)
(***************************************************************************)
C7_RotationRate ==
    Done =>
        LET rate == Get(json, "rotation_rate")
            emitted == Of(ch, {metricDeviceRotationRate})
        IN  /\ (~Exists(rate) \/ rate.Num = 0) => emitted = <<>>
            /\ (Exists(rate) /\ rate.Num > 0) =>
                   /\ Len(emitted) = 1
                   /\ emitted[1].valueType = "gauge"
                   /\ emitted[1].value = rate.Num
            /\ StepCount(8) = Len(ForEach(Get(json, "temperature")))
            /\ StepCount(9) = 1
            /\ StepCount(10) = EntriesOf(StatisticsPages)
            /\ StepCount(12) = 1

\* A completed pass over a report with rotation_rate = 7200, which was emitted.
C7_Witness ==
    /\ Done
    /\ Get(json, "rotation_rate") = JNum(7200)
    /\ \E m \in Range(ch) :
           m.desc = "smartctl_device_rotation_rate" /\ m.value = 7200

(***************************************************************************)
(* C8: a completed pass has emitted exactly one power-on-time observation, *)
(* a counter whose value is hours*3600 + minutes*60, hours and minutes     *)
(* read from power_on_time and each 0 when absent.                         *)
(***************************************************************************)
NumberOrZero(r) == IF Exists(r) THEN r.Num ELSE 0

C8_PowerOnSeconds ==
    Done =>
        LET pot == Get(json, "power_on_time")
            emitted == Of(ch, {metricDevicePowerOnSeconds})
        IN  /\ Len(emitted) = 1
            /\ emitted[1].valueType = "counter"
            /\ emitted[1].value = NumberOrZero(Get(pot, "hours")) * 3600
                                      + NumberOrZero(Get(pot, "minutes")) * 60

\* hours = 100 and minutes = 30 gave 361800.
C8_Witness ==
    /\ Done
    /\ GetPath(json, <<"power_on_time", "hours">>) = JNum(100)
    /\ GetPath(json, <<"power_on_time", "minutes">>) = JNum(30)
    /\ \E m \in Range(ch) :
           m.desc = "smartctl_device_power_on_seconds" /\ m.value = 361800

(***************************************************************************)
(* C9: whatever fields the report lacks, the pass goes through the twelve  *)
(* sub-steps in Collect's order without a panic: the observations a        *)
(* sub-step sends are those of the sub-step before the one Collect calls   *)
(* next, the sink receives them ordered by sub-step, and a completed pass  *)
(* has emitted the unconditional observations, the interface speeds with   *)
(* value 0 when one of their sub-fields is missing.                        *)
(***************************************************************************)
PcIndex ==
    IF pc = "done" THEN Len(StepDescs) + 1
    ELSE CHOOSE i \in 1..Len(StepDescs) :
             pc = <<"mineExitStatus", "mineDevice", "mineCapacity",
                    "mineInterfaceSpeed", "mineDeviceAttribute",
                    "minePowerOnSeconds", "mineRotationRate", "mineTemperatures",
                    "minePowerCycleCount", "mineDeviceStatistics",
                    "mineNvmeSmartHealthInformationLog", "mineSmartStatus">>[i]

\* The observations of descriptor d whose last label value is `last`.
Labelled(d, last) ==
    SelectSeq(Of(ch, {d}), LAMBDA m : m.labelValues[Len(m.labelValues)] = S(last))

SpeedFieldMissing(type) ==
    \/ ~Exists(GetPath(json, <<"interface_speed", type, "units_per_second">>))
    \/ ~Exists(GetPath(json, <<"interface_speed", type, "bits_per_unit">>))

C9_AllStepsInOrder ==
    /\ pc # "panic"
    /\ \A m \in Range(pending) : StepOf(m) = PcIndex - 1
    /\ ch # <<>> => StepOf(ch[Len(ch)]) \in 1..(PcIndex - 1)
    /\ Done =>
           /\ \A i \in 1..(Len(ch) - 1) : StepOf(ch[i]) <= StepOf(ch[i + 1])
           /\ \A d \in {metricDeviceExitStatus, metricDeviceModel,
                        metricDeviceCapacityBlocks, metricDeviceCapacityBytes,
                        metricDevicePowerOnSeconds, metricDevicePowerCycleCount,
                        metricSmartStatus} : Count(ch, {d}) = 1
           /\ Count(ch, {metricDeviceBlockSize}) = 2
           /\ \A kind \in {"logical", "physical"} :
                  Len(Labelled(metricDeviceBlockSize, kind)) = 1
           /\ Count(ch, {metricDeviceInterfaceSpeed}) = 2
           /\ \A type \in {"max", "current"} :
                  /\ Len(Labelled(metricDeviceInterfaceSpeed, type)) = 1
                  /\ SpeedFieldMissing(type) =>
                         Labelled(metricDeviceInterfaceSpeed, type)[1].value = 0

\* A completed pass over the empty report.
C9_Witness ==
    /\ Done
    /\ json = JObj(<<>>)
    /\ Count(ch, {metricSmartStatus}) = 1
    /\ Labelled(metricDeviceInterfaceSpeed, "current")[1].value = 0

(***************************************************************************)
(* C10 (as claimed): a pass that has not completed can always take a step  *)
(* of its own, whatever the sink does.                                     *)
(***************************************************************************)
C10_NeverWaits ==
    (~Done /\ pc # "panic") => CanStep

(***************************************************************************)
(* C10 (amended): the only place where a pass that has not completed       *)
(* cannot take a step of its own is a send to the channel that the sink    *)
(* does not accept (there it stays blocked as long as the sink stays       *)
(* away); with the sink ready to receive it always can.  Observations      *)
(* already handed over stand: what the sink has received stays as          *)
(* received.                                                               *)
(***************************************************************************)
IsPrefix(a, b) == Len(a) <= Len(b) /\ SubSeq(b, 1, Len(a)) = a

C10_WaitsOnlyToSend ==
    /\ []((~Done /\ pc # "panic" /\ ~CanStep) => (pending # <<>> /\ ~sinkReady))
    /\ [][IsPrefix(ch, ch')]_vars

\* Collect is inside a sub-step, some observations are handed over, and the
\* sink is not receiving the next one.
C10_Witness ==
    /\ pending # <<>>
    /\ ch # <<>>
    /\ ~sinkReady
    /\ ~CanStep

====
